---- MODULE Spec2Model ----
(***************************************************************************)
(* Skater, skater/core/global_interpretation/feature_importance.py:        *)
(* FeatureImportance.feature_importance and the per-feature task it        *)
(* dispatches (compute_feature_importance, compute_importance, the two     *)
(* estimators and importance_scaler).                                      *)
(*                                                                         *)
(* One call of feature_importance is a run of the state machine below,     *)
(* one action per statement group of the method.  The collaborators that   *)
(* the method calls (Pool, DataManager, the model, the scorer, pandas,     *)
(* divide_zerosafe) are modelled at their interface.  Predictions are      *)
(* one-dimensional (a regression model).  The sort of line 158 permutes    *)
(* the Series' index only, so the Series is kept as a mapping keyed by     *)
(* feature id.                                                             *)
(***************************************************************************)
EXTENDS Integers, Sequences, FiniteSets, TLC

(***************************************************************************)
(* Bounds of the model.                                                    *)
(***************************************************************************)
MaxFeatures == 2
NRows == 2

(***************************************************************************)
(* Floating point values: a finite value is the fraction n/d in lowest     *)
(* terms, "inf" carries its sign in n, "nan" is IEEE's not-a-number.       *)
(***************************************************************************)
RECURSIVE GCD(_, _)
GCD(a, b) == IF b = 0 THEN a ELSE GCD(b, a % b)

AbsInt(a) == IF a < 0 THEN -a ELSE a

Sign(a) == IF a < 0 THEN -1 ELSE IF a = 0 THEN 0 ELSE 1

Frac(n, d) ==
    LET g == GCD(AbsInt(n), d)
    IN  [k |-> "fin", n |-> n \div g, d |-> d \div g]

NaN == [k |-> "nan", n |-> 0, d |-> 1]

Inf(s) == [k |-> "inf", n |-> s, d |-> 1]

Zero == Frac(0, 1)

One == Frac(1, 1)

IsNaN(x) == x.k = "nan"

NumAdd(x, y) ==
    IF IsNaN(x) \/ IsNaN(y) THEN NaN
    ELSE IF x.k = "inf" /\ y.k = "inf" THEN (IF x.n = y.n THEN x ELSE NaN)
    ELSE IF x.k = "inf" THEN x
    ELSE IF y.k = "inf" THEN y
    ELSE Frac(x.n * y.d + y.n * x.d, x.d * y.d)

NumNeg(x) == IF IsNaN(x) THEN NaN ELSE [x EXCEPT !.n = -x.n]

NumSub(x, y) == NumAdd(x, NumNeg(y))

NumMul(x, y) ==
    IF IsNaN(x) \/ IsNaN(y) THEN NaN
    ELSE IF x.k = "inf" \/ y.k = "inf"
         THEN (IF x.n = 0 \/ y.n = 0 THEN NaN ELSE Inf(Sign(x.n) * Sign(y.n)))
    ELSE Frac(x.n * y.n, x.d * y.d)

\* IEEE division x / y: 0/0 and inf/inf are nan, x/0 is a signed infinity.
NumDiv(x, y) ==
    IF IsNaN(x) \/ IsNaN(y) THEN NaN
    ELSE IF x.k = "inf" THEN (IF y.k = "inf" THEN NaN
                              ELSE Inf(x.n * (IF y.n < 0 THEN -1 ELSE 1)))
    ELSE IF y.k = "inf" THEN Zero
    ELSE IF y.n = 0 THEN (IF x.n = 0 THEN NaN ELSE Inf(Sign(x.n)))
    ELSE Frac(x.n * y.d * Sign(y.n), x.d * AbsInt(y.n))

NumAbs(x) == IF IsNaN(x) THEN NaN ELSE [x EXCEPT !.n = AbsInt(x.n)]

\* x > y; every comparison with nan is false.
NumGt(x, y) ==
    IF IsNaN(x) \/ IsNaN(y) THEN FALSE
    ELSE IF x.k = "inf" THEN x.n > 0 /\ ~(y.k = "inf" /\ y.n > 0)
    ELSE IF y.k = "inf" THEN y.n < 0
    ELSE x.n * y.d > y.n * x.d

\* x == y; nan equals nothing.
NumEq(x, y) == ~IsNaN(x) /\ ~IsNaN(y) /\ x = y

RECURSIVE NumSum(_)
NumSum(s) == IF s = <<>> THEN Zero ELSE NumAdd(Head(s), NumSum(Tail(s)))

\* np.mean: the sum over the length (nan for an empty array).
NumMean(s) == NumDiv(NumSum(s), Frac(Len(s), 1))

RECURSIVE MaxOf(_)
MaxOf(s) ==
    IF Len(s) = 1 THEN s[1]
    ELSE LET m == MaxOf(Tail(s)) IN IF s[1] > m THEN s[1] ELSE m

RECURSIVE MinOf(_)
MinOf(s) ==
    IF Len(s) = 1 THEN s[1]
    ELSE LET m == MinOf(Tail(s)) IN IF s[1] < m THEN s[1] ELSE m

(***************************************************************************)
(* Python values.  An optional value is a set with at most one element    *)
(* (None is the empty set); a dict is a function on its keys; an error     *)
(* is a record of the exception's class and the method names its message  *)
(* mentions.                                                               *)
(***************************************************************************)
None == {}

Some(v) == {v}

TheValue(opt) == CHOOSE v \in opt : TRUE

Range(s) == {s[i] : i \in DOMAIN s}

NoError == [kind |-> "", mentions |-> {}]

Error(kind, mentions) == [kind |-> kind, mentions |-> mentions]

\* The exceptions feature_importance raises or lets through.
AssertionError == Error("AssertionError", {})

LabelsError == Error("FeatureImportanceError", {"labels"})

SumError == Error("FeatureImportanceError", {"sum"})

PoolValueError == Error("ValueError", {"processes"})

PoolOSError == Error("OSError", {"pool"})

SetupError == Error("RuntimeError", {"setup"})

\* dict.update(other): the keys of other overwrite.
DictUpdate(d, other) == other @@ d

(***************************************************************************)
(* The collaborators, at their interface.                                  *)
(***************************************************************************)
ValidMethods == {"output-variance", "conditional-permutation"}

\* DataManager[feature_id]: one column of a dataset (a sequence of rows).
Column(data, feature_id) == [i \in 1..Len(data) |-> data[i][feature_id]]

\* DataManager[feature_id] = samples, on the task's copy.
SetColumn(data, feature_id, samples) ==
    [i \in 1..Len(data) |-> [data[i] EXCEPT ![feature_id] = samples[i]]]

\* DataManager.generate_column_sample: n replacement values drawn from the
\* column's observed values.  The draw is the sampler's, fixed for a
\* deterministic sampler: "same" redraws each row's own value, "rotate"
\* the next row's, "first" the first row's.  Both strategies draw this way.
generate_column_sample(column, n_samples, strategy, draw) ==
    [i \in 1..n_samples |->
        column[IF draw = "same" THEN i
               ELSE IF draw = "rotate" THEN (i % Len(column)) + 1
               ELSE 1]]

RECURSIVE Dot(_, _, _)
Dot(coef, row, f) == IF f = 0 THEN 0 ELSE coef[f] * row[f] + Dot(coef, row, f - 1)

\* model_instance.predict and the static predictor: a linear model.
predict_fn(coef, data) == [i \in 1..Len(data) |-> Dot(coef, data[i], Len(coef))]

\* The scorer: sklearn-style weighted average over the rows, mean absolute
\* error for a "decreasing" scorer and accuracy for an "increasing" one.
\* sample_weight None weighs every row 1.  Arrays of different length raise.
ScorerFits(labels, predictions) == Len(labels) = Len(predictions)

scorer(type, labels, predictions, sample_weight) ==
    LET n == Len(predictions)
        w == IF sample_weight = None THEN [i \in 1..n |-> One]
             ELSE TheValue(sample_weight)
        loss(i) == IF type = "decreasing"
                   THEN Frac(AbsInt(labels[i] - predictions[i]), 1)
                   ELSE IF labels[i] = predictions[i] THEN One ELSE Zero
    IN  NumDiv(NumSum([i \in 1..n |-> NumMul(w[i], loss(i))]), NumSum(w))

(***************************************************************************)
(* The Scale Estimator and the Importance Estimator.                       *)
(***************************************************************************)
importance_scaler(original_x, perturbed_x) ==
    LET n == Len(original_x)
        range == MaxOf(original_x) - MinOf(original_x)
        scales == [i \in 1..n |->
                      NumDiv(Frac(AbsInt(perturbed_x[i] - original_x[i]), 1),
                             Frac(range, 1))]
        \* sum(scales == 0): the number of rows whose scale equals 0
        zeros == Cardinality({i \in 1..n : NumEq(scales[i], Zero)})
    IN  IF zeros # 0 THEN [i \in 1..n |-> One] ELSE scales

compute_importance_via_output_variance(new_predictions, original_predictions, original_x, perturbed_x, scaled) ==
    LET n == Len(new_predictions)
        changes_in_predictions ==
            [i \in 1..n |-> Frac(AbsInt(new_predictions[i] - original_predictions[i]), 1)]
        scales == importance_scaler(original_x, perturbed_x)
    IN  IF scaled
        THEN NumMean([i \in 1..n |-> NumMul(changes_in_predictions[i], scales[i])])
        ELSE NumMean(changes_in_predictions)

\* max(x, 0) left out: the score difference as it is.
PyMax0_NoClamp(x) == x

\* Python's max(x, 0): 0 only when 0 > x, so a nan x is returned as it is.
PyMax0(x) == IF NumGt(Zero, x) THEN Zero ELSE x

compute_importance_via_conditional_permutation(new_predictions, original_predictions, training_labels, original_x, perturbed_x, scorer_type, scaled) ==
    LET sample_weight == IF scaled
                         THEN Some(importance_scaler(original_x, perturbed_x))
                         ELSE None
        score1 == scorer(scorer_type, training_labels, new_predictions, sample_weight)
        score2 == scorer(scorer_type, training_labels, original_predictions, sample_weight)
        multiple == IF scorer_type = "increasing" THEN One ELSE NumNeg(One)
    IN  NumAbs(PyMax0(NumMul(NumSub(score2, score1), multiple)))

\* The result of a call that may raise: err is NoError and val the value, or
\* err is the exception.
Returned(val) == [err |-> NoError, val |-> val]

Raised(err) == [err |-> err, val |-> NaN]

\* compute_importance with an else branch that computes output-variance
\* for any other method instead of raising.
compute_importance_default(new_predictions, original_predictions, original_x, perturbed_x, training_labels, method, scaled, scorer_type) ==
    IF method = "conditional-permutation"
    THEN IF ScorerFits(TheValue(training_labels), new_predictions)
         THEN Returned(compute_importance_via_conditional_permutation(
                           new_predictions, original_predictions,
                           TheValue(training_labels), original_x, perturbed_x,
                           scorer_type, scaled))
         ELSE Raised(Error("ValueError", {}))
    ELSE Returned(compute_importance_via_output_variance(
                      new_predictions, original_predictions,
                      original_x, perturbed_x, scaled))

compute_importance(new_predictions, original_predictions, original_x, perturbed_x, training_labels, method, scaled, scorer_type) ==
    IF method = "output-variance"
    THEN Returned(compute_importance_via_output_variance(
                      new_predictions, original_predictions,
                      original_x, perturbed_x, scaled))
    ELSE IF method = "conditional-permutation"
    THEN IF ScorerFits(TheValue(training_labels), new_predictions)
         THEN Returned(compute_importance_via_conditional_permutation(
                           new_predictions, original_predictions,
                           TheValue(training_labels), original_x, perturbed_x,
                           scorer_type, scaled))
         ELSE Raised(Error("ValueError", {}))
    ELSE Raised(Error("KeyError", {method}))

\* feature_info[feature_id]['numeric'] selects the sampling strategy.
Strategy(numeric) == IF numeric THEN "uniform-over-similarity-ranks" ELSE "random-choice"

\* input_data.copy() handing back a view on input_data: no new array.
copy_View(array) == [values |-> array, is_new |-> FALSE]

\* Line 296: input_data.copy() is a new array with the values of input_data.
copy(array) == [values |-> array, is_new |-> TRUE]

\* The per-feature task: {feature_id: importance}, or the exception; and
\* input_data, the caller's array, as the task leaves it: line 306 writes
\* the samples into the array the DataManager of line 296 wraps.
compute_feature_importance(feature_id, input_data, coef, original_predictions, feature_info, draw, training_labels, method, scaled, scorer_type) ==
    LET the_copy == copy(input_data)
        copy_of_data_set == the_copy.values
        n == Len(copy_of_data_set)
        original_values == Column(copy_of_data_set, feature_id)
        samples == generate_column_sample(original_values, n,
                                          Strategy(feature_info[feature_id]), draw)
        perturbed == SetColumn(copy_of_data_set, feature_id, samples)
        new_predictions == predict_fn(coef, perturbed)
        importance == compute_importance(new_predictions, original_predictions,
                                         original_values, samples, training_labels,
                                         method, scaled, scorer_type)
        input_data_after == IF the_copy.is_new THEN input_data ELSE perturbed
    IN  IF importance.err = NoError
        THEN [err |-> NoError, val |-> (feature_id :> importance.val),
              input_data |-> input_data_after]
        ELSE [err |-> importance.err, val |-> <<>>, input_data |-> input_data_after]

\* DataManager.generate_sample(strategy='random-choice', n_samples): the
\* ways to draw n_samples rows of n_rows without replacement, as increasing
\* row numbers (the order of the rows does not matter to the estimators).
SampleChoices(n_rows, n_samples) ==
    {rows \in [1..n_samples -> 1..n_rows] :
        \A i \in 1..(n_samples - 1) : rows[i] < rows[i + 1]}

\* multiprocessing.Pool(processes): processes None is os.cpu_count(), a
\* number below 1 raises ValueError.
PoolRejects(processes) == processes # None /\ TheValue(processes) < 1

\* pandas Series.sum(): the sum of the entries that are not nan.
RECURSIVE SeriesSum(_)
SeriesSum(series) ==
    IF DOMAIN series = {} THEN Zero
    ELSE LET key == CHOOSE x \in DOMAIN series : TRUE
             rest == [x \in DOMAIN series \ {key} |-> series[x]]
         IN  IF IsNaN(series[key]) THEN SeriesSum(rest)
             ELSE NumAdd(series[key], SeriesSum(rest))

\* util.dataops.divide_zerosafe, elementwise: the quotient, and zero where
\* the quotient is not a finite number.
divide_zerosafe(a, b) ==
    [x \in DOMAIN a |->
        LET c == NumDiv(a[x], b[x]) IN IF c.k = "fin" THEN c ELSE Zero]

(***************************************************************************)
(* The state: the interpretation context (data_set, training_labels), the  *)
(* model, the sampler's draw, the arguments of the call, and the locals    *)
(* of feature_importance.                                                  *)
(***************************************************************************)
VARIABLES
    data_set,             \* self.data_set: data, feature_ids, n_rows, feature_info
    model_instance,       \* coef of the predictor, target_names, scorers.default.type
    training_labels,      \* self.training_labels: None or the label vector
    draw,                 \* the column sampler's draw
    args,                 \* filter_classes, n_jobs, progressbar, n_samples, method, use_scaling
    pc,                   \* the statement of feature_importance to run next
    inputs,               \* the baseline input rows
    drawn,                \* the rows generate_sample drew, None when it was not called
    original_predictions, \* the baseline predictions
    predict_calls,        \* calls of model_instance.predict in this call
    pool,                 \* executor_instance
    p,                    \* the ProgressBar's tick count, None without a progress bar
    log,                  \* the logger's lines, in order
    worker_done,          \* the tasks the pool's workers have finished, in the order they finished
    it,                   \* items the running for loop has taken from its iterator
    importance_dicts,
    pending,              \* the exception in flight through the finally block
    importances,          \* the merged raw importances
    result,               \* the returned Series
    error,                \* the exception the call raised
    raw_seq               \* raw importances of an earlier call with n_jobs = 1

context == <<data_set, model_instance, training_labels, draw>>

locals == <<inputs, drawn, original_predictions, predict_calls, pool, p, log,
            worker_done, it, importance_dicts, pending, importances, result, error>>

vars == <<context, args, pc, locals, raw_seq>>

arg_list == data_set.feature_ids

n_features == Len(data_set.feature_ids)

NoPool == [created |-> FALSE, requested |-> FALSE, processes |-> None,
           closed |-> FALSE, joined |-> FALSE, terminated |-> FALSE]

(***************************************************************************)
(* The inputs.  A dataset has NRows rows and up to MaxFeatures features;   *)
(* a column is constant or holds the row number.  The model is linear      *)
(* with coefficients 0 (insensitive), 1 or 3.                              *)
(***************************************************************************)
ColumnKinds == {"const", "ramp"}

Coefficients == {0, 1, 3}

Draws == {"same", "rotate", "first"}

DataOf(k, kinds) ==
    [r \in 1..NRows |-> [f \in 1..k |-> IF kinds[f] = "const" THEN 1 ELSE r]]

TargetNames == {"c0", "c1"}

FilterClassesValues == {{}, {"c0"}, {"c0", "zz"}}

NJobsValues == {-2, -1, 0, 1, 2}

MethodValues == ValidMethods \cup {"bogus"}

LabelsOf(kind, coef, data) ==
    IF kind = "none" THEN None
    ELSE IF kind = "perfect" THEN Some(predict_fn(coef, data))
    ELSE Some([r \in 1..Len(data) |-> 0])

\* Every combination of the arguments on one dataset and model.
ControlInputs(kinds, coef, d, labels, scorer_type, a) ==
    /\ \A f \in DOMAIN kinds : kinds[f] = "ramp" /\ coef[f] = 1
    /\ d = "rotate"
    /\ labels \in {"none", "perfect"}
    /\ scorer_type = "decreasing"
    /\ ~a.use_scaling

\* The features of a dataset are listed by coefficient, then by kind of
\* column: every dataset and model is one of these up to the order of
\* its features.
FeatureRank(kinds, coef, f) == 2 * coef[f] + (IF kinds[f] = "ramp" THEN 1 ELSE 0)

\* Every dataset, model, sampler and scorer, up to the order of the
\* features, under the arguments that reach the estimators on the full
\* dataset: a call with n_jobs = 1, which a call with a pool follows
\* (Recall).  The labels and the scorer vary where the method reads them.
NumericInputs(kinds, coef, d, labels, scorer_type, a) ==
    /\ \A f \in DOMAIN kinds \ {1} : FeatureRank(kinds, coef, f - 1) <= FeatureRank(kinds, coef, f)
    /\ a.filter_classes = {}
    /\ a.n_jobs = 1
    /\ a.n_samples > NRows
    /\ a.method \in ValidMethods
    /\ labels \in {"perfect", "zeros"}
    /\ a.method = "output-variance" => labels = "perfect" /\ scorer_type = "decreasing"

Init ==
    \E k \in 0..MaxFeatures :
    \E kinds \in [1..k -> ColumnKinds], coef \in [1..k -> Coefficients], d \in Draws,
       labels \in {"none", "perfect", "zeros"},
       scorer_type \in {"increasing", "decreasing"},
       a \in [filter_classes : FilterClassesValues, n_jobs : NJobsValues,
              progressbar : BOOLEAN, n_samples : (NRows - 1)..(NRows + 1),
              method : MethodValues, use_scaling : BOOLEAN] :
        /\ \/ ControlInputs(kinds, coef, d, labels, scorer_type, a)
           \/ NumericInputs(kinds, coef, d, labels, scorer_type, a)
        /\ data_set = [data |-> DataOf(k, kinds),
                       feature_ids |-> [f \in 1..k |-> f],
                       n_rows |-> NRows,
                       feature_info |-> [f \in 1..k |-> TRUE]]
        /\ model_instance = [coef |-> coef, target_names |-> TargetNames,
                             scorer_type |-> scorer_type]
        /\ training_labels = LabelsOf(labels, coef, DataOf(k, kinds))
        /\ draw = d
        /\ args = a
        /\ pc = "filter"
        /\ inputs = <<>>
        /\ drawn = None
        /\ original_predictions = <<>>
        /\ predict_calls = 0
        /\ pool = NoPool
        /\ p = None
        /\ log = <<>>
        /\ worker_done = <<>>
        /\ it = 0
        /\ importance_dicts = <<>>
        /\ pending = NoError
        /\ importances = <<>>
        /\ result = <<>>
        /\ error = NoError
        /\ raw_seq = None

(***************************************************************************)
(* feature_importance, statement group by statement group.                 *)
(***************************************************************************)
\* The order with the labels check moved below the baseline predictions.
NextStage_LateLabels(stage) ==
    CASE stage = "filter" -> "inputs"
      [] stage = "inputs" -> "predict"
      [] stage = "predict" -> "labels"
      [] stage = "labels" -> "pool"
      [] stage = "pool" -> "setup"
      [] stage = "setup" -> "try"

\* The order of the statements before the try block.
NextStage(stage) ==
    CASE stage = "filter" -> "labels"
      [] stage = "labels" -> "inputs"
      [] stage = "inputs" -> "predict"
      [] stage = "predict" -> "pool"
      [] stage = "pool" -> "setup"
      [] stage = "setup" -> "try"

\* raise: the call ends with the exception.
Raise(e) == pc' = "raised" /\ error' = e

\* Lines 83-90: assert all(i in model_instance.target_names for i in filter_classes)
FilterClassesOK(filter_classes, target_names) ==
    filter_classes # {} => filter_classes \subseteq target_names

CheckFilterClasses ==
    /\ pc = "filter"
    /\ IF FilterClassesOK(args.filter_classes, model_instance.target_names)
       THEN pc' = NextStage("filter") /\ UNCHANGED error
       ELSE Raise(AssertionError)
    /\ UNCHANGED <<context, args, raw_seq, inputs, drawn, original_predictions,
                   predict_calls, pool, p, log, worker_done, it, importance_dicts,
                   pending, importances, result>>

\* The labels check left out.
LabelsMissing_Never(method, labels) == FALSE

\* Line 92: method == 'conditional-permutation' and self.training_labels is None
LabelsMissing(method, labels) ==
    method = "conditional-permutation" /\ labels = None

\* Lines 96-99: the local training_labels handed to the tasks.
training_labels_local ==
    IF args.method = "conditional-permutation" THEN training_labels ELSE None

CheckLabels ==
    /\ pc = "labels"
    /\ IF LabelsMissing(args.method, training_labels)
       THEN Raise(LabelsError)
       ELSE pc' = NextStage("labels") /\ UNCHANGED error
    /\ UNCHANGED <<context, args, raw_seq, inputs, drawn, original_predictions,
                   predict_calls, pool, p, log, worker_done, it, importance_dicts,
                   pending, importances, result>>

\* The comparison of line 101 made strict.
NeedsSample_Strict(n_samples, n_rows) == n_samples < n_rows

\* Line 101: n_samples <= self.data_set.n_rows
NeedsSample(n_samples, n_rows) == n_samples <= n_rows

\* Lines 101-106.  A deterministic sampler draws in a later call the rows it
\* drew in the first.
SelectInputs ==
    /\ pc = "inputs"
    /\ IF NeedsSample(args.n_samples, data_set.n_rows)
       THEN \E rows \in SampleChoices(data_set.n_rows, args.n_samples) :
                /\ raw_seq # None /\ drawn # None => rows = TheValue(drawn)
                /\ drawn' = Some(rows)
                /\ inputs' = [i \in 1..args.n_samples |-> data_set.data[rows[i]]]
       ELSE /\ inputs' = data_set.data
            /\ drawn' = None
    /\ pc' = NextStage("inputs")
    /\ UNCHANGED <<context, args, raw_seq, original_predictions, predict_calls,
                   pool, p, log, worker_done, it, importance_dicts, pending,
                   importances, result, error>>

\* Line 108.
Predict ==
    /\ pc = "predict"
    /\ original_predictions' = predict_fn(model_instance.coef, inputs)
    /\ predict_calls' = predict_calls + 1
    /\ pc' = NextStage("predict")
    /\ UNCHANGED <<context, args, raw_seq, inputs, drawn, pool, p, log,
                   worker_done, it, importance_dicts, pending, importances,
                   result, error>>

\* Line 109 with n_jobs <= 0.
ResolveJobs_NonPositive(n_jobs) == IF n_jobs <= 0 THEN None ELSE Some(n_jobs)

\* Line 109: n_jobs = None if n_jobs < 0 else n_jobs
ResolveJobs(n_jobs) == IF n_jobs < 0 THEN None ELSE Some(n_jobs)

\* Lines 109-111.  Pool(n_jobs) raises ValueError for a number below 1, and
\* may fail to start its worker processes.
CreatePool ==
    /\ pc = "pool"
    /\ LET processes == ResolveJobs(args.n_jobs) IN
        IF PoolRejects(processes)
        THEN /\ pool' = [pool EXCEPT !.requested = TRUE, !.processes = processes]
             /\ Raise(PoolValueError)
        ELSE \E started \in BOOLEAN :
                IF started
                THEN /\ pool' = [pool EXCEPT !.requested = TRUE, !.created = TRUE,
                                             !.processes = processes]
                     /\ pc' = NextStage("pool")
                     /\ UNCHANGED error
                ELSE /\ pool' = [pool EXCEPT !.requested = TRUE,
                                             !.processes = processes]
                     /\ Raise(PoolOSError)
    /\ UNCHANGED <<context, args, raw_seq, inputs, drawn, original_predictions,
                   predict_calls, p, log, worker_done, it, importance_dicts,
                   pending, importances, result>>

\* Lines 112-132: the progress bar warning and the ProgressBar, the mapper,
\* the partial task.  Any of these calls into the logger, the progress bar
\* or the model may raise.
Setup ==
    /\ pc = "setup"
    /\ \E ok \in BOOLEAN :
        IF ok
        THEN /\ IF args.progressbar
                THEN log' = Append(log, "progressbar-warning") /\ p' = Some(0)
                ELSE UNCHANGED <<log, p>>
             /\ pc' = NextStage("setup")
             /\ UNCHANGED error
        ELSE /\ Raise(SetupError)
             /\ UNCHANGED <<log, p>>
    /\ UNCHANGED <<context, args, raw_seq, inputs, drawn, original_predictions,
                   predict_calls, pool, worker_done, it, importance_dicts,
                   pending, importances, result>>

\* fi_func(feature_id), lines 123-132.
fi_func(feature_id) ==
    compute_feature_importance(feature_id, inputs, model_instance.coef,
                               original_predictions, data_set.feature_info, draw,
                               training_labels_local, args.method,
                               args.use_scaling, model_instance.scorer_type)

\* if progressbar: p.animate()
Animate == IF args.progressbar THEN p' = Some(TheValue(p) + 1) ELSE UNCHANGED p

\* Lines 135-139: n_jobs == 1 raises ValueError into the except clause;
\* otherwise the tasks are handed to the pool's mapper.
TryEnter ==
    /\ pc = "try"
    /\ IF pool.processes = Some(1)
       THEN pc' = "except" /\ UNCHANGED <<importance_dicts, worker_done, it>>
       ELSE /\ importance_dicts' = <<>>
            /\ worker_done' = <<>>
            /\ it' = 0
            /\ pc' = "parallel"
    /\ UNCHANGED <<context, args, raw_seq, inputs, drawn, original_predictions,
                   predict_calls, pool, p, log, pending, importances, result, error>>

\* A worker of the pool finishes one task; the workers finish in any order.
\* A worker is another process: its task works on the unpickled arguments
\* of fi_func, and the caller's arrays are out of its reach.
WorkerFinish(feature_id) ==
    /\ pc = "parallel"
    /\ feature_id \in Range(arg_list) \ Range(worker_done)
    /\ worker_done' = Append(worker_done, feature_id)
    /\ UNCHANGED <<context, args, raw_seq, pc, inputs, drawn, original_predictions,
                   predict_calls, pool, p, log, it, importance_dicts, pending,
                   importances, result, error>>

\* Lines 139-142: one turn of the for loop over mapper(fi_func, arg_list).
\* imap yields the results in the order of arg_list as they arrive; map
\* returns the whole list once every task is done, and raises as soon as a
\* task has failed.  A task's exception is raised into the except clause.
ParallelNext ==
    /\ pc = "parallel"
    /\ LET failed == {f \in Range(worker_done) : fi_func(f).err # NoError}
           ready == IF ~args.progressbar
                    THEN (IF failed # {} THEN TRUE ELSE Range(worker_done) = Range(arg_list))
                    ELSE IF it = n_features THEN TRUE
                    ELSE arg_list[it + 1] \in Range(worker_done)
           raises == IF ~args.progressbar THEN failed # {}
                     ELSE IF it = n_features THEN FALSE
                     ELSE arg_list[it + 1] \in failed
       IN  /\ ready
           /\ IF raises
              THEN pc' = "except" /\ UNCHANGED <<importance_dicts, it, p>>
              ELSE IF it = n_features
              THEN pc' = "finally" /\ UNCHANGED <<importance_dicts, it, p>>
              ELSE /\ importance_dicts' =
                          Append(importance_dicts, fi_func(arg_list[it + 1]).val)
                   /\ it' = it + 1
                   /\ Animate
                   /\ UNCHANGED pc
    /\ UNCHANGED <<context, args, raw_seq, inputs, drawn, original_predictions,
                   predict_calls, pool, log, worker_done, pending, importances,
                   result, error>>

\* The pool breaks while the mapper is at work: before any result, or, with
\* imap, between two results.
PoolFail ==
    /\ pc = "parallel"
    /\ IF args.progressbar THEN TRUE ELSE it = 0
    /\ pc' = "except"
    /\ UNCHANGED <<context, args, raw_seq, inputs, drawn, original_predictions,
                   predict_calls, pool, p, log, worker_done, it, importance_dicts,
                   pending, importances, result, error>>

\* The sequential run resumed after the items the parallel loop had taken.
SeqStart_Resume(taken) == taken

\* Line 146: a new iterator, map(fi_func, arg_list), from its first item.
SeqStart(taken) == 0

\* The except clause without line 145: the results of the failed attempt kept.
DiscardPartial_Keep(dicts) == dicts

\* Line 145: importance_dicts = []
DiscardPartial(dicts) == <<>>

\* Lines 143-146: the except clause.
ExceptHandler ==
    /\ pc = "except"
    /\ log' = Append(log, "fallback-warning")
    /\ importance_dicts' = DiscardPartial(importance_dicts)
    /\ it' = SeqStart(it)
    /\ worker_done' = <<>>
    /\ pc' = "seq"
    /\ UNCHANGED <<context, args, raw_seq, inputs, drawn, original_predictions,
                   predict_calls, pool, p, pending, importances, result, error>>

\* Lines 146-149: one turn of the sequential for loop; a task's exception
\* leaves the except clause through the finally block.  The task runs in
\* the calling process, on the caller's input_data.
SeqNext ==
    /\ pc = "seq"
    /\ IF it = n_features
       THEN pc' = "finally" /\ UNCHANGED <<importance_dicts, it, p, pending, inputs>>
       ELSE LET r == fi_func(arg_list[it + 1]) IN
            /\ inputs' = r.input_data
            /\ IF r.err # NoError
               THEN /\ pending' = r.err
                    /\ pc' = "finally"
                    /\ UNCHANGED <<importance_dicts, it, p>>
               ELSE /\ importance_dicts' = Append(importance_dicts, r.val)
                    /\ it' = it + 1
                    /\ Animate
                    /\ UNCHANGED <<pc, pending>>
    /\ UNCHANGED <<context, args, raw_seq, drawn, original_predictions,
                   predict_calls, pool, log, worker_done, importances, result, error>>

\* Lines 150-153.
Finally ==
    /\ pc = "finally"
    /\ pool' = [pool EXCEPT !.closed = TRUE, !.joined = TRUE, !.terminated = TRUE]
    /\ IF pending # NoError
       THEN Raise(pending)
       ELSE pc' = "aggregate" /\ UNCHANGED error
    /\ UNCHANGED <<context, args, raw_seq, inputs, drawn, original_predictions,
                   predict_calls, p, log, worker_done, it, importance_dicts,
                   pending, importances, result>>

\* The merge with importances = i in place of importances.update(i): the
\* last collected dict only.
Merge_LastOnly(dicts, into) == IF dicts = <<>> THEN into ELSE dicts[Len(dicts)]

\* Lines 155-156: importances.update(i) for each collected dict.
RECURSIVE Merge(_, _)
Merge(dicts, into) ==
    IF dicts = <<>> THEN into ELSE Merge(Tail(dicts), DictUpdate(into, Head(dicts)))

\* Line 160 with a check that lets a zero sum through.
PositiveSum_NonNegative(series) == ~NumGt(Zero, SeriesSum(series))

\* Line 160: importances.sum() > 0
PositiveSum(series) == NumGt(SeriesSum(series), Zero)

\* Line 170.
Normalize(series) ==
    divide_zerosafe(series, [x \in DOMAIN series |-> SeriesSum(series)])

\* Lines 155-171.
Aggregate ==
    /\ pc = "aggregate"
    /\ LET merged == Merge(importance_dicts, <<>>) IN
        /\ importances' = merged
        /\ raw_seq' = IF args.n_jobs = 1 THEN Some(merged) ELSE raw_seq
        /\ IF PositiveSum(merged)
           THEN /\ result' = Normalize(merged)
                /\ pc' = "returned"
                /\ UNCHANGED <<log, error>>
           ELSE /\ log' = Append(log, "debug-importances")
                /\ Raise(SumError)
                /\ UNCHANGED result
    /\ UNCHANGED <<context, args, inputs, drawn, original_predictions,
                   predict_calls, pool, p, worker_done, it, importance_dicts,
                   pending>>

\* The caller calls feature_importance again on the same context, model and
\* sampler, now with more than one worker, after a call with n_jobs = 1.
Recall ==
    /\ pc \in {"returned", "raised"}
    /\ args.n_jobs = 1
    /\ raw_seq # None
    /\ \E n_jobs \in {n \in NJobsValues : n > 1} :
            args' = [args EXCEPT !.n_jobs = n_jobs]
    /\ pc' = "filter"
    /\ inputs' = <<>>
    /\ original_predictions' = <<>>
    /\ predict_calls' = 0
    /\ pool' = NoPool
    /\ p' = None
    /\ log' = <<>>
    /\ worker_done' = <<>>
    /\ it' = 0
    /\ importance_dicts' = <<>>
    /\ pending' = NoError
    /\ importances' = <<>>
    /\ result' = <<>>
    /\ error' = NoError
    /\ UNCHANGED <<context, drawn, raw_seq>>

Next ==
    \/ CheckFilterClasses
    \/ CheckLabels
    \/ SelectInputs
    \/ Predict
    \/ CreatePool
    \/ Setup
    \/ TryEnter
    \/ \E f \in 1..MaxFeatures : WorkerFinish(f)
    \/ ParallelNext
    \/ PoolFail
    \/ ExceptHandler
    \/ SeqNext
    \/ Finally
    \/ Aggregate
    \/ Recall

Spec == Init /\ [][Next]_vars

(***************************************************************************)
(* Properties.                                                             *)
(***************************************************************************)
Done == pc \in {"returned", "raised"}

FeatureIds == Range(arg_list)

\* The except clause ran after the tasks had been handed to the pool.
FellBack == "fallback-warning" \in Range(log) /\ pool.processes # Some(1)

\* The raw importances of this call have been merged (lines 155-156 ran).
Aggregated == pc = "returned" \/ (pc = "raised" /\ error = SumError)

\* The sum of all entries of a Series, nan included.
RECURSIVE TotalOf(_)
TotalOf(series) ==
    IF DOMAIN series = {} THEN Zero
    ELSE LET key == CHOOSE x \in DOMAIN series : TRUE
         IN  NumAdd(series[key], TotalOf([x \in DOMAIN series \ {key} |-> series[x]]))

C2_NoPoolWhenSequential == args.n_jobs = 1 => ~pool.created

\* C3: when the call has returned or raised and the pool had been created,
\* the pool has been closed, joined and terminated.
C3_PoolReleasedOnEveryExit ==
    (Done /\ pool.created) => pool.closed /\ pool.joined /\ pool.terminated

\* Pool creation failed, or the parallel attempt failed.
PoolLevelFailure == (pool.requested /\ ~pool.created) \/ FellBack

\* C4: after a failure of pool creation, submission or execution the call
\* raises only the per-task error of the failed sequential re-run (or, the
\* re-run done, the later positivity error): the pool-level failure itself
\* never reaches the caller.
C4_PoolFailureNotSurfaced ==
    (pc = "raised" /\ PoolLevelFailure) =>
        \/ pending # NoError /\ error = pending
        \/ error = SumError

\* C5: for a deterministic model and sampler, the raw importances of a call
\* whose parallel attempt failed and fell back equal the raw importances of
\* the call with n_jobs = 1.
C5_FallbackEqualsSequential ==
    (raw_seq # None /\ args.n_jobs # 1 /\ FellBack /\ Aggregated) =>
        importances = TheValue(raw_seq)

\* The pool failed after all results but one had been taken (and ticked),
\* and the fallback produced the importances of two features, one non-zero.
C5_Witness ==
    /\ raw_seq # None /\ args.n_jobs # 1 /\ FellBack /\ Aggregated
    /\ n_features = 2
    /\ p = Some(n_features - 1 + n_features)
    /\ \E f \in DOMAIN importances : NumGt(importances[f], Zero)

\* C6 as stated: conditional-permutation without labels always ends in the
\* configuration error, whatever the other arguments.
C6_AlwaysConfigurationError ==
    (args.method = "conditional-permutation" /\ training_labels = None /\ Done) =>
        pc = "raised" /\ error = LabelsError

\* C6 as amended: conditional-permutation without labels never gets past
\* the two checks, and ends in the configuration error unless filter_classes
\* has a member outside the model's target names, which fails the earlier
\* assertion.
C6_ConfigurationErrorAfterFilterCheck ==
    (args.method = "conditional-permutation" /\ training_labels = None) =>
        /\ pc \in {"filter", "labels", "raised"}
        /\ pc = "raised" =>
              error = (IF args.filter_classes \subseteq model_instance.target_names
                       THEN LabelsError ELSE AssertionError)

\* The configuration error, under a non-empty valid filter_classes and a
\* worker count the pool would reject.
C6_Witness ==
    /\ pc = "raised" /\ error = LabelsError
    /\ args.filter_classes = {"c0"}
    /\ args.n_jobs = 0 /\ args.progressbar

\* C7: when the call fails on filter_classes or on the missing labels, no
\* row has been sampled, predict has not been called and no pool has been
\* asked for.
C7_FailFast ==
    (pc = "raised" /\ error \in {AssertionError, LabelsError}) =>
        /\ inputs = <<>> /\ drawn = None
        /\ predict_calls = 0
        /\ ~pool.requested

\* The missing-labels failure of a call that would have sampled the rows.
C7_Witness ==
    /\ pc = "raised" /\ error = LabelsError
    /\ NeedsSample(args.n_samples, data_set.n_rows)

InputsSelected == inputs # <<>>

\* C9 as stated: with at most n_samples rows the full dataset is used and
\* nothing is drawn; a sample of n_samples rows is drawn only from more.
C9_FullDatasetUpToNSamples ==
    InputsSelected =>
        IF data_set.n_rows <= args.n_samples
        THEN drawn = None /\ inputs = data_set.data
        ELSE drawn # None /\ Len(inputs) = args.n_samples

\* C9 as amended: the full dataset is used only with fewer than n_samples
\* rows; with n_samples rows or more, the row count n_samples included,
\* generate_sample draws n_samples rows.
C9_SampleFromNSamplesRows ==
    InputsSelected =>
        IF data_set.n_rows < args.n_samples
        THEN drawn = None /\ inputs = data_set.data
        ELSE /\ drawn # None
             /\ Len(inputs) = args.n_samples
             /\ Range(inputs) \subseteq Range(data_set.data)

\* The rows are drawn from a dataset of exactly n_samples rows.
C9_Witness ==
    /\ InputsSelected
    /\ data_set.n_rows = args.n_samples
    /\ drawn # None

\* C10 as stated: every worker count n_jobs <= 0 makes the pool with the
\* default number of workers, and is not rejected.
C10_NonPositiveIsDefault ==
    (args.n_jobs <= 0 /\ pool.requested) =>
        pool.processes = None /\ error # PoolValueError

\* C10 as amended: a negative worker count asks for the pool with the
\* default number of workers and is never rejected for its count; 0 is
\* handed to Pool as it is, which rejects it: no pool is created and the
\* call ends in Pool's ValueError before dispatch.
C10_NegativeIsDefault ==
    pool.requested =>
        /\ args.n_jobs < 0 => pool.processes = None /\ error # PoolValueError
        /\ args.n_jobs >= 0 => pool.processes = Some(args.n_jobs)
        /\ args.n_jobs = 0 => pc = "raised" /\ error = PoolValueError /\ ~pool.created

\* The tasks of a call with a negative worker count are with the pool.
C10_Witness ==
    /\ args.n_jobs < 0
    /\ pool.created /\ pool.processes = None
    /\ pc = "parallel" /\ worker_done # <<>>

\* The model's predictions do not depend on the column of feature f.
Insensitive(f) == model_instance.coef[f] = 0

\* C11: when the raw importances do not sum to more than 0, the call ends in
\* the computation error with every feature's importance merged, and it
\* never returns; with output-variance the raw importance of a feature the
\* model is insensitive to is exactly 0, and with that feature as the only
\* one the call ends in the computation error.
C11_NonPositiveSumIsComputationError ==
    /\ (Aggregated /\ ~PositiveSum(importances)) =>
          /\ pc = "raised" /\ error = SumError
          /\ DOMAIN importances = FeatureIds
          /\ result = <<>>
    /\ (Aggregated /\ args.method = "output-variance") =>
          /\ \A f \in DOMAIN importances : Insensitive(f) => importances[f] = Zero
          /\ (n_features = 1 /\ Insensitive(1)) => pc = "raised" /\ error = SumError

\* Lines 297-305 in the task of feature f: the column's original values and
\* the samples that replace them.
original_values_of(f) == Column(inputs, f)

samples_of(f) ==
    generate_column_sample(original_values_of(f), Len(inputs),
                           Strategy(data_set.feature_info[f]), draw)

\* The features whose task has handed its result to the running loop of a
\* call with use_scaling: their tasks have called importance_scaler.
ScaledTasks ==
    IF args.use_scaling
    THEN {f \in FeatureIds : \E i \in DOMAIN importance_dicts : f \in DOMAIN importance_dicts[i]}
    ELSE {}

\* The scale of row i as C12 states it.
ScaleOfRow(original_x, perturbed_x, i) ==
    NumDiv(Frac(AbsInt(perturbed_x[i] - original_x[i]), 1),
           Frac(MaxOf(original_x) - MinOf(original_x), 1))

\* C12: importance_scaler returns |perturbed - original| / (max(original) -
\* min(original)) row by row, and a weight of 1 for every row exactly when
\* the scale of every row is zero; where some rows are unchanged and others
\* changed it returns the computed scales.
C12_UniformExactlyWhenEveryScaleIsZero ==
    \A f \in ScaledTasks :
        LET original_x == original_values_of(f)
            perturbed_x == samples_of(f)
            rows == DOMAIN original_x
        IN  importance_scaler(original_x, perturbed_x) =
                IF \A i \in rows : NumEq(ScaleOfRow(original_x, perturbed_x, i), Zero)
                THEN [i \in rows |-> One]
                ELSE [i \in rows |-> ScaleOfRow(original_x, perturbed_x, i)]

\* C13: for a feature whose perturbed values equal the original values in
\* every row, a constant feature included, importance_scaler returns the
\* weight 1 for every row: no division by zero shows in the result.
C13_UnchangedFeatureGetsUnitWeights ==
    \A f \in ScaledTasks :
        samples_of(f) = original_values_of(f) =>
            importance_scaler(original_values_of(f), samples_of(f)) =
                [i \in DOMAIN original_values_of(f) |-> One]

\* Lines 307-308 in the task of feature f: the predictions on the copy with
\* the column replaced.
new_predictions_of(f) ==
    predict_fn(model_instance.coef, SetColumn(inputs, f, samples_of(f)))

\* Lines 364-367 in the task of feature f.
sample_weight_of(f) ==
    IF args.use_scaling
    THEN Some(importance_scaler(original_values_of(f), samples_of(f)))
    ELSE None

\* The scorer on (labels, baseline predictions) and on (labels, perturbed
\* predictions), as the task of feature f calls it.
score_before(f) ==
    scorer(model_instance.scorer_type, TheValue(training_labels),
           original_predictions, sample_weight_of(f))

score_after(f) ==
    scorer(model_instance.scorer_type, TheValue(training_labels),
           new_predictions_of(f), sample_weight_of(f))

direction == IF model_instance.scorer_type = "increasing" THEN One ELSE NumNeg(One)

\* The feature whose conditional-permutation task is the last to have
\* handed its result to the running loop (each result is the last one when
\* the loop appends it), and the importance in that result.
PermutationTasks ==
    IF args.method = "conditional-permutation" /\ pc \in {"seq", "parallel"}
          /\ importance_dicts # <<>>
    THEN DOMAIN importance_dicts[Len(importance_dicts)]
    ELSE {}

ImportanceOf(f) == importance_dicts[Len(importance_dicts)][f]

\* direction * (score_before - score_after) for feature f.
ScoreDrop(f) == NumMul(direction, NumSub(score_before(f), score_after(f)))

PerfectModel == training_labels = Some(original_predictions)

\* C14 as stated: the importance is max(0, direction * (score_before -
\* score_after)), never negative, exactly 0 where the perturbation improves
\* the score, and 0 for every feature of a perfect model with an increasing
\* scorer.
C14_PerfectModelGetsZero ==
    \A f \in PermutationTasks :
        LET drop == ScoreDrop(f)
            importance == ImportanceOf(f)
        IN  /\ importance = (IF NumGt(drop, Zero) THEN drop ELSE Zero)
            /\ ~NumGt(Zero, importance)
            /\ NumGt(Zero, drop) => importance = Zero
            /\ (PerfectModel /\ model_instance.scorer_type = "increasing") =>
                  importance = Zero

\* C14 as amended: where both scores are numbers the importance is
\* max(0, direction * (score_before - score_after)); it is never negative,
\* and exactly 0 where the perturbation improves the score or leaves it as
\* it is.  A perfect model with an increasing scorer gets the drop of the
\* score, score_before - score_after, which is more than 0 for a feature
\* whose perturbation lowers the score.  Where a score is nan (the weights
\* of use_scaling on a constant feature are nan) the importance is nan.
C14_ClampedScoreDrop ==
    \A f \in PermutationTasks :
        LET before == score_before(f)
            after == score_after(f)
            drop == NumMul(direction, NumSub(before, after))
            importance == ImportanceOf(f)
        IN  /\ ~IsNaN(drop) => importance = (IF NumGt(drop, Zero) THEN drop ELSE Zero)
            /\ ~NumGt(Zero, importance)
            /\ ~NumGt(drop, Zero) /\ ~IsNaN(drop) => importance = Zero
            /\ (PerfectModel /\ model_instance.scorer_type = "increasing" /\ ~IsNaN(drop)) =>
                  /\ importance = NumSub(before, after)
                  /\ NumGt(before, after) => NumGt(importance, Zero)
            /\ IsNaN(drop) => IsNaN(importance)

\* The sequential loop has taken the results of two features; the
\* perturbation of the second improved the score of a decreasing scorer,
\* and its importance is 0.
C14_Witness ==
    /\ n_features = 2 /\ pc = "seq" /\ it = 2
    /\ model_instance.scorer_type = "decreasing"
    /\ \E f \in PermutationTasks : NumGt(Zero, ScoreDrop(f)) /\ ImportanceOf(f) = Zero

\* Dispatch has finished without raising: the finally block is done and
\* the results are about to be merged, or have been.
Dispatched == pc = "aggregate" \/ Aggregated

\* C15: with the progress bar enabled, when dispatch has finished the bar
\* has been ticked once per feature, on every path.
C15_OneTickPerFeature ==
    (args.progressbar /\ Dispatched) => p = Some(n_features)

\* C16: when dispatch has finished without raising, importance_dicts holds
\* one result per feature, each the single-feature result of its task (in
\* the order of arg_list), and nothing else: the results of a failed
\* parallel attempt are not in it.
C16_OneResultPerFeature ==
    Dispatched =>
        /\ Len(importance_dicts) = n_features
        /\ \A f \in FeatureIds :
              Cardinality({i \in DOMAIN importance_dicts : f \in DOMAIN importance_dicts[i]}) = 1
        /\ \A i \in DOMAIN importance_dicts :
              /\ Cardinality(DOMAIN importance_dicts[i]) = 1
              /\ importance_dicts[i] = fi_func(arg_list[i]).val

\* Dispatch has finished for two features after a parallel attempt with
\* imap had delivered one result (one tick more than the fallback's two)
\* and then failed.
C16_Witness ==
    /\ Dispatched /\ FellBack
    /\ n_features = 2
    /\ args.progressbar /\ p = Some(3)
    /\ Len(importance_dicts) = 2

\* The tasks were dispatched to the pool and every result came from it.
ParallelSuccess == Aggregated /\ pool.processes # Some(1) /\ ~FellBack

\* What the tasks compute from the shared context, feature by feature.
TaskValues == [f \in FeatureIds |-> fi_func(f).val[f]]

\* C17: whatever the order in which the workers of the pool finish the
\* tasks, the merged raw importances are the values the tasks compute from
\* the shared context, one per feature id, and the returned distribution is
\* their normalization.
C17_MergeIndependentOfCompletionOrder ==
    ParallelSuccess =>
        /\ importances = TaskValues
        /\ pc = "returned" => result = Normalize(TaskValues)

\* The workers finished the task of the second feature before the task of
\* the first, and the two importances differ.
C17_Witness ==
    /\ ParallelSuccess
    /\ worker_done = <<2, 1>>
    /\ pc = "returned"
    /\ importances[1] # importances[2]

\* The baseline predictions have been computed in this call (line 108 ran).
BaselineReady == predict_calls > 0

\* The rows lines 101-106 selected: the drawn rows, or the full dataset.
SelectedRows ==
    IF drawn = None THEN data_set.data
    ELSE [i \in DOMAIN TheValue(drawn) |-> data_set.data[TheValue(drawn)[i]]]

\* C18: whatever tasks have run, one after the other or in the pool, the
\* baseline input rows are the rows that were selected and the baseline
\* predictions are the model's predictions on them: no task has written to
\* either.
C18_BaselineUnchanged ==
    BaselineReady =>
        /\ inputs = SelectedRows
        /\ original_predictions = predict_fn(model_instance.coef, SelectedRows)

\* The sequential loop has run the tasks of two features, each of which
\* replaced its column by other values.
C18_Witness ==
    /\ BaselineReady
    /\ pc = "seq" /\ it = 2
    /\ \A f \in FeatureIds : samples_of(f) # original_values_of(f)

FallbackWarned == "fallback-warning" \in Range(log)

\* C19: the fallback warning is in the log only of a call that handed its
\* tasks to the pool, it is there whenever such a call runs the sequential
\* loop, and a call with n_jobs = 1 does not log it.
C19_FallbackWarningIffFellBack ==
    /\ FallbackWarned => pool.processes # Some(1)
    /\ (pc = "seq" /\ pool.processes # Some(1)) => FallbackWarned
    /\ args.n_jobs = 1 => ~FallbackWarned

====
